---- MODULE Spec2Model ----
(***************************************************************************)
(* State-machine model of rltorch/agents/core.py: the actor-critic agent   *)
(* ACAgent (predict / observe / record / set_new_obs /                     *)
(* aggregate_experiences) together with the Experience Store it drives.    *)
(*                                                                         *)
(* Conventions.                                                            *)
(*  - A per-worker array (obs, action, reward, terminal, ...) is a         *)
(*    function on 0..n-1, as the Python list it models.                    *)
(*  - A per-timestep list (the store's buffers, deltas, advs) is a         *)
(*    sequence; timestep t of the code is index t+1.                       *)
(*  - Floats are exact rationals [n |-> numerator, d |-> denominator > 0]  *)
(*    in lowest terms.                                                     *)
(*  - An exception that leaves a handler is recorded in status; the        *)
(*    training loop does not catch it, so nothing runs afterwards.         *)
(***************************************************************************)
EXTENDS Integers, Sequences, FiniteSets, TLC

VARIABLES
    processor,            \* self.processor: "None" or "processor"
    smooth_length,        \* self.smooth_length
    num_frames_per_proc,  \* self.num_frames_per_proc
    discount,             \* self.discount (rational)
    gae_lambda,           \* self.gae_lambda (rational)
    memory,               \* self.memory (the Experience Store)
    new_obs,              \* self.new_obs: [set |-> FALSE] until first assigned
    episode_steps,        \* self.episode_steps (defaultdict, worker -> int)
    reward_record,        \* self.reward_record (defaultdict, worker -> deque)
    ep_rewards,           \* self.ep_rewards (defaultdict, worker -> list)
    ep_actions,           \* self.ep_actions (defaultdict, worker -> list)
    record_step,          \* self.record_step
    writer,               \* what self.writer (the telemetry sink) has accepted
    status,               \* "ok", or the exception that left the last handler
    result,               \* what the last handler returned
    call,                 \* the last call of the training loop and its arguments
    history,              \* per completed record call: the rewards and terminals
    fresh,                \* set_new_obs was called since construction / last aggregate
    horizon               \* the predict / observe pairs since construction / last aggregate

vars == <<processor, smooth_length, num_frames_per_proc, discount, gae_lambda,
          memory, new_obs, episode_steps, reward_record, ep_rewards, ep_actions,
          record_step, writer, status, result, call, history, fresh,
          horizon>>

----------------------------------------------------------------------------
(* Arithmetic helpers *)

Abs(x) == IF x < 0 THEN -x ELSE x

RECURSIVE GCD(_, _)
GCD(a, b) == IF b = 0 THEN a ELSE GCD(b, a % b)

\* The rational n/d (d > 0) in lowest terms.
Frac(n, d) == LET g == GCD(Abs(n), d) IN [n |-> n \div g, d |-> d \div g]

FInt(k) == [n |-> k, d |-> 1]
FAdd(x, y) == Frac(x.n * y.d + y.n * x.d, x.d * y.d)
FMul(x, y) == Frac(x.n * y.n, x.d * y.d)

\* x ** p for a float x and p = 0., 1., 2., ...; Python gives 0. ** 0. = 1.
RECURSIVE FPow(_, _)
FPow(x, p) == IF p = 0 THEN FInt(1) ELSE FMul(x, FPow(x, p - 1))

\* np.sum / torch.sum(., -1) of a list of numbers
RECURSIVE SeqSum(_)
SeqSum(s) == IF s = <<>> THEN 0 ELSE s[1] + SeqSum(Tail(s))

\* len(action): the number of workers of a per-worker array
n_workers(v) == Cardinality(DOMAIN v)

\* defaultdict: d[i] with the default created on first touch
Get(d, i, default) == IF i \in DOMAIN d THEN d[i] ELSE default
Put(d, i, v) == [k \in (DOMAIN d) \cup {i} |-> IF k = i THEN v ELSE d[k]]

\* Seeded fault: a plain list instead of a bounded deque
deque_append_unbounded(q, x, maxlen) == Append(q, x)

\* deque(maxlen=maxlen).append(x): the oldest entry leaves when full
deque_append(q, x, maxlen) ==
    IF maxlen = 0 THEN <<>>
    ELSE IF Len(q) >= maxlen THEN Append(Tail(q), x)
    ELSE Append(q, x)

----------------------------------------------------------------------------
(* External collaborators *)

\* processor.process(obs_i): a pure feature map; here raw k becomes k + 2,
\* so processed and raw observations are never confused.
process(obs_i) == obs_i + 2

\* ac_model(state)[1]: the value head, a vector per worker whose last
\* dimension the agent sums.  A fixed stand-in network: the state window
\* <<s>> has value vector <<s, -2>>.
ac_model_value(state) ==
    [i \in DOMAIN state |-> <<state[i][Len(state[i])], -2>>]

\* dist.log_prob(action) and dist.entropy() of the policy head (stand-ins)
dist_log_prob(state, action) == [i \in DOMAIN action |-> 0 - (action[i] + 1)]
dist_entropy(state) == [i \in DOMAIN state |-> state[i][Len(state[i])] + 1]

----------------------------------------------------------------------------
(* The Experience Store, ACMemory(limit, window_length) *)

ACMemory(limit, window_length) ==
    [limit |-> limit, window_length |-> window_length,
     observations |-> <<>>, actions |-> <<>>, rewards |-> <<>>,
     terminals |-> <<>>, values |-> <<>>, log_probs |-> <<>>,
     entropies |-> <<>>]

\* memory.get_recent_state(obs): the windowed state of every worker
\* (window_length = 1: the window holds the given observation only)
get_recent_state(m, obs) == [i \in DOMAIN obs |-> <<obs[i]>>]

\* memory.store_value_log_prob(value, log_prob, entropy)
store_value_log_prob(m, value, log_prob, entropy) ==
    [m EXCEPT !.values = Append(@, value),
              !.log_probs = Append(@, log_prob),
              !.entropies = Append(@, entropy)]

\* memory.append(obs, action, reward, terminal, training)
memory_append(m, obs, action, reward, terminal, training) ==
    IF training
    THEN [m EXCEPT !.observations = Append(@, obs),
                   !.actions = Append(@, action),
                   !.rewards = Append(@, reward),
                   !.terminals = Append(@, terminal)]
    ELSE m

\* memory.sample() is defined once the horizon is full
memory_full(m) ==
    /\ Len(m.rewards) = m.limit
    /\ Len(m.values) = m.limit

\* memory.reset()
memory_reset(m) == ACMemory(m.limit, m.window_length)

----------------------------------------------------------------------------
(* The agent object as a record, and its handlers as functions on it *)

Agent ==
    [processor |-> processor, smooth_length |-> smooth_length,
     num_frames_per_proc |-> num_frames_per_proc, discount |-> discount,
     gae_lambda |-> gae_lambda, memory |-> memory, new_obs |-> new_obs,
     episode_steps |-> episode_steps, reward_record |-> reward_record,
     ep_rewards |-> ep_rewards, ep_actions |-> ep_actions,
     record_step |-> record_step, writer |-> writer, status |-> status,
     result |-> result]

NoResult ==
    [kind |-> "None", action |-> <<>>, advs |-> <<>>, log_probs |-> <<>>,
     entropies |-> <<>>]

Raise(a, exception) == [a EXCEPT !.status = exception, !.result = NoResult]
Return(a, value) == [a EXCEPT !.result = value]

\* BaseAgent.__init__ and ACAgent.__init__
ACAgent_init(proc, smooth, window_length, disc, lam, frames) ==
    [processor |-> proc, smooth_length |-> smooth,
     num_frames_per_proc |-> frames, discount |-> disc, gae_lambda |-> lam,
     memory |-> ACMemory(frames, window_length),
     new_obs |-> [set |-> FALSE, obs |-> <<>>],
     episode_steps |-> <<>>, reward_record |-> <<>>,
     ep_rewards |-> <<>>, ep_actions |-> <<>>,
     record_step |-> 0, writer |-> <<>>, status |-> "ok",
     result |-> NoResult]

\* ACAgent.predict(obs, training); sample is the action dist.sample() draws
predict(a, obs, training, sample) ==
    LET obs1 == IF a.processor # "None"
                THEN [i \in DOMAIN obs |-> process(obs[i])] ELSE obs
        state == get_recent_state(a.memory, obs1)
        value == ac_model_value(state)
        a1 == IF training
              THEN [a EXCEPT !.memory = store_value_log_prob(
                                 @, value, dist_log_prob(state, sample),
                                 dist_entropy(state))]
              ELSE a
    IN Return(a1, [NoResult EXCEPT !.kind = "action", !.action = sample])

\* The telemetry sink: fault names the write of this record call that the
\* sink rejects (worker, and 1 = reward sum, 2 = action histogram,
\* 3 = reward histogram), NoFault when it accepts them all.
NoFault == [worker |-> -1, write |-> 0]

\* Seeded fault: the episode's action list is not cleared
reset_record_keeps_actions(a, i) ==
    [a EXCEPT !.episode_steps = Put(@, i, Get(@, i, 0) + 1),
              !.ep_rewards = Put(@, i, <<>>)]

\* Seeded fault: the episode's reward list is not cleared
reset_record_keeps_rewards(a, i) ==
    [a EXCEPT !.episode_steps = Put(@, i, Get(@, i, 0) + 1),
              !.ep_actions = Put(@, i, <<>>)]

\* "# Reset record": the end of an episode of worker i
reset_record(a, i) ==
    [a EXCEPT !.episode_steps = Put(@, i, Get(@, i, 0) + 1),
              !.ep_rewards = Put(@, i, <<>>),
              !.ep_actions = Put(@, i, <<>>)]

\* One pass of the loop body of ACAgent.record for worker i
record_worker(a, i, action, reward, terminal, fault) ==
    LET a1 == [a EXCEPT
                 !.reward_record = Put(@, i, deque_append(Get(@, i, <<>>),
                                        reward[i], a.smooth_length)),
                 !.ep_rewards = Put(@, i, Append(Get(@, i, <<>>), reward[i])),
                 !.ep_actions = Put(@, i, Append(Get(@, i, <<>>), action[i]))]
        ep_sum_reward == SeqSum(a1.ep_rewards[i])
        step == Get(a1.episode_steps, i, 0)
        w1 == [kind |-> "scalar", tag |-> "data/episode_reward_sum",
               worker |-> i, value |-> <<ep_sum_reward>>, step |-> step]
        w2 == [kind |-> "histogram", tag |-> "data/episode_action",
               worker |-> i, value |-> a1.ep_actions[i], step |-> step]
        w3 == [kind |-> "histogram", tag |-> "data/episode_reward_dist",
               worker |-> i, value |-> a1.ep_rewards[i], step |-> step]
        a2 == [a1 EXCEPT !.episode_steps = Put(@, i, step)]
        failed == IF fault.worker = i THEN fault.write ELSE 4
    IN IF ~terminal[i] THEN a1
       ELSE IF failed = 1 THEN Raise(a2, "SinkError")
       ELSE IF failed = 2
            THEN Raise([a2 EXCEPT !.writer = @ \o <<w1>>], "SinkError")
       ELSE IF failed = 3
            THEN Raise([a2 EXCEPT !.writer = @ \o <<w1, w2>>], "SinkError")
       ELSE reset_record([a2 EXCEPT !.writer = @ \o <<w1, w2, w3>>], i)

\* for i in range(n_workers): ..., from worker i on
RECURSIVE record_loop(_, _, _, _, _, _)
record_loop(a, i, action, reward, terminal, fault) ==
    IF i >= n_workers(action) \/ a.status # "ok" THEN a
    ELSE record_loop(record_worker(a, i, action, reward, terminal, fault),
                     i + 1, action, reward, terminal, fault)

\* ACAgent.record(action, reward, terminal)
record(a, action, reward, terminal, fault) ==
    LET a1 == record_loop(a, 0, action, reward, terminal, fault)
    IN IF a1.status = "ok"
       THEN Return([a1 EXCEPT !.record_step = @ + 1], NoResult)
       ELSE a1

\* ACAgent.observe(obs, action, reward, terminal, info, training): the
\* comprehension calls self.processor.process once per obs_i, with no test
\* for None, so it raises on the first obs_i and not at all on an empty obs
observe(a, obs, action, reward, terminal, training, fault) ==
    IF a.processor = "None" /\ n_workers(obs) > 0
    THEN Raise(a, "AttributeError")
    ELSE LET obs1 == IF a.processor = "None" THEN obs
                     ELSE [i \in DOMAIN obs |-> process(obs[i])]
             a1 == [a EXCEPT !.memory = memory_append(@, obs1, action, reward,
                                                      terminal, training)]
         IN record(a1, action, reward, terminal, fault)

\* ACAgent.set_new_obs(new_obs)
set_new_obs(a, obs) ==
    LET obs1 == IF a.processor # "None"
                THEN [i \in DOMAIN obs |-> process(obs[i])] ELSE obs
    IN Return([a EXCEPT !.new_obs = [set |-> TRUE, obs |-> obs1]], NoResult)

\* ACAgent.get_newest_state(): reading self.new_obs raises AttributeError
\* until set_new_obs has assigned it
get_newest_state(a) ==
    IF ~a.new_obs.set
    THEN [raised |-> "AttributeError", state |-> <<>>]
    ELSE [raised |-> "", state |-> get_recent_state(a.memory, a.new_obs.obs)]

\* Tensors over the worker dimension.  Two sizes broadcast when they are
\* equal or one of them is 1; the entry of a size-1 tensor serves every
\* index of the result.
Broadcastable(v, w) ==
    \/ n_workers(v) = n_workers(w)
    \/ n_workers(v) = 1
    \/ n_workers(w) = 1
BroadcastIds(v, w) == IF n_workers(v) = 1 THEN DOMAIN w ELSE DOMAIN v
At(v, i) == IF n_workers(v) = 1 THEN v[0] ELSE v[i]

\* v + w, v * w and v - w of two broadcastable tensors (a new tensor)
TAdd(v, w) == [i \in BroadcastIds(v, w) |-> At(v, i) + At(w, i)]
TMul(v, w) == [i \in BroadcastIds(v, w) |-> At(v, i) * At(w, i)]
TSub(v, w) == [i \in BroadcastIds(v, w) |-> At(v, i) - At(w, i)]

\* np.array(rows) of per-timestep arrays: the rows must have one width
Rectangular(rows) ==
    \A t, u \in 1..Len(rows) : n_workers(rows[t]) = n_workers(rows[u])

\* torch.stack(tensors): a non-empty list of tensors of one shape
Stackable(tensors) ==
    /\ Len(tensors) > 0
    /\ \A t, u \in 1..Len(tensors) : n_workers(tensors[t]) = n_workers(tensors[u])

\* torch.stack of the cached value vectors: one worker count and one vector
\* length throughout
StackableValues(cached) ==
    /\ Stackable(cached)
    /\ \A t, u \in 1..Len(cached) :
          \A i \in DOMAIN cached[t] : \A j \in DOMAIN cached[u] :
             Len(cached[t][i]) = Len(cached[u][j])

\* (r + v_next * m) - v, lines 224-225 and 232-233: each of the three
\* operations raises RuntimeError when its operands do not broadcast
delta_defined(r, v_next, m, v) ==
    /\ Broadcastable(v_next, m)
    /\ Broadcastable(r, TMul(v_next, m))
    /\ Broadcastable(TAdd(r, TMul(v_next, m)), v)
delta(r, v_next, m, v) == TSub(TAdd(r, TMul(v_next, m)), v)

\* Seeded fault: the bootstrap value repeats the cached value of the last
\* stored step instead of the value of the newest state
new_value_repeats_cached(a) ==
    LET newest == get_newest_state(a)
        cached == a.memory.values
    IN [raised |-> newest.raised,
        value |-> [i \in DOMAIN cached[Len(cached)] |->
                      SeqSum(cached[Len(cached)][i])]]

\* Lines 228-231: new_value, the model's value of the newest state summed
\* over its last dimension, or the exception get_newest_state raises
new_value(a) ==
    LET newest == get_newest_state(a)
    IN [raised |-> newest.raised,
        value |-> [i \in DOMAIN newest.state |->
                      SeqSum(ac_model_value(newest.state)[i])]]

\* Lines 201-234 of ACAgent.aggregate_experiences: the TD residuals, one
\* per-worker tensor per timestep, or the first exception on the way:
\*   202, 205  np.array of rows of unequal width          ValueError
\*   208-215   torch.stack of no tensors / unequal shapes   RuntimeError
\*   224, 225  a timestep the cached values do not have     IndexError
\*             operands that do not broadcast              RuntimeError
\*   228       self.new_obs never assigned                AttributeError
\*   232, 233  rewards[-1] of an empty rollout              IndexError
\*             operands that do not broadcast              RuntimeError
td_deltas(a) ==
    LET rewards == a.memory.rewards
        terminals == a.memory.terminals
        cached == a.memory.values
        T == Len(rewards)
        Failed(exception) == [raised |-> exception, deltas |-> <<>>]
    IN IF ~Rectangular(rewards) \/ ~Rectangular(terminals)
       THEN Failed("ValueError")
       ELSE IF \/ ~StackableValues(cached)
               \/ ~Stackable(a.memory.log_probs)
               \/ ~Stackable(a.memory.entropies)
       THEN Failed("RuntimeError")
       ELSE
       LET masks == [t \in 1..Len(terminals) |->
                       [i \in DOMAIN terminals[t] |->
                           1 - (IF terminals[t][i] THEN 1 ELSE 0)]]
           values == [t \in 1..Len(cached) |->
                        [i \in DOMAIN cached[t] |-> SeqSum(cached[t][i])]]
           step_raises(t) ==
               IF t + 1 > Len(values) \/ t > Len(masks) THEN "IndexError"
               ELSE IF ~delta_defined(rewards[t], values[t + 1], masks[t],
                                      values[t])
                    THEN "RuntimeError"
               ELSE ""
           failing == {t \in 1..(T - 1) : step_raises(t) # ""}
           first == CHOOSE t \in failing : \A u \in failing : t <= u
           bootstrap == new_value(a)
       IN IF failing # {} THEN Failed(step_raises(first))
          ELSE IF bootstrap.raised # "" THEN Failed(bootstrap.raised)
          ELSE IF T = 0 \/ Len(masks) = 0 THEN Failed("IndexError")
          ELSE IF ~delta_defined(rewards[T], bootstrap.value,
                                 masks[Len(masks)], values[Len(values)])
               THEN Failed("RuntimeError")
          ELSE [raised |-> "",
                deltas |->
                  [t \in 1..T |->
                     IF t < T
                     THEN delta(rewards[t], values[t + 1], masks[t], values[t])
                     ELSE delta(rewards[T], bootstrap.value,
                                masks[Len(masks)], values[Len(values)])]]

\* adv = 0. (line 239): a Python float, not yet a tensor
float_zero == [is_float |-> TRUE, tensor |-> [i \in {0} |-> FInt(0)]]

\* deltas[t] * (decay_rate ** power), a new tensor
scaled(delta_t, decay_rate, power) ==
    [i \in DOMAIN delta_t |-> FMul(FInt(delta_t[i]), FPow(decay_rate, power))]

\* adv += term (line 243).  On the float the sum is a new tensor of the
\* term's shape; on a tensor the addition is in place, so the term must
\* broadcast to the shape adv already has, or RuntimeError is raised.
iadd_defined(adv, term) ==
    \/ adv.is_float
    \/ n_workers(term) = n_workers(adv.tensor)
    \/ n_workers(term) = 1
iadd(adv, term) ==
    IF adv.is_float
    THEN [is_float |-> FALSE,
          tensor |-> [i \in DOMAIN term |-> FAdd(adv.tensor[0], term[i])]]
    ELSE [is_float |-> FALSE,
          tensor |-> [i \in DOMAIN adv.tensor |->
                         FAdd(adv.tensor[i], At(term, i))]]

\* Seeded fault: power is never incremented
RECURSIVE adv_loop_fixed_power(_, _, _, _, _)
adv_loop_fixed_power(deltas, decay_rate, t, adv, power) ==
    IF t > Len(deltas) THEN [raised |-> "", adv |-> adv]
    ELSE IF ~iadd_defined(adv, scaled(deltas[t], decay_rate, power))
         THEN [raised |-> "RuntimeError", adv |-> adv]
    ELSE adv_loop_fixed_power(deltas, decay_rate, t + 1,
                  iadd(adv, scaled(deltas[t], decay_rate, power)), power)

\* for t in range(t_st, T): adv += deltas[t] * (decay_rate ** power);
\* power += 1.  (lines 242-245), from timestep t on: the final adv or the
\* RuntimeError of line 243
RECURSIVE adv_loop(_, _, _, _, _)
adv_loop(deltas, decay_rate, t, adv, power) ==
    IF t > Len(deltas) THEN [raised |-> "", adv |-> adv]
    ELSE IF ~iadd_defined(adv, scaled(deltas[t], decay_rate, power))
         THEN [raised |-> "RuntimeError", adv |-> adv]
    ELSE adv_loop(deltas, decay_rate, t + 1,
                  iadd(adv, scaled(deltas[t], decay_rate, power)), power + 1)

\* Seeded fault: power starts at 1.
gae_advs_power_from_one(deltas, decay_rate) ==
    LET T == Len(deltas)
        adv(t_st) == adv_loop(deltas, decay_rate, t_st, float_zero, 1)
    IN IF \E t_st \in 1..T : adv(t_st).raised # ""
       THEN [raised |-> "RuntimeError", advs |-> <<>>]
       ELSE IF ~Stackable([t_st \in 1..T |-> adv(t_st).adv.tensor])
       THEN [raised |-> "RuntimeError", advs |-> <<>>]
       ELSE [raised |-> "", advs |-> [t_st \in 1..T |-> adv(t_st).adv.tensor]]

\* Lines 236-246 of ACAgent.aggregate_experiences: the advantages, one
\* tensor per t_st, stacked; RuntimeError when an in-place addition of
\* line 243 or the torch.stack of line 246 is undefined
gae_advs(deltas, decay_rate) ==
    LET T == Len(deltas)
        adv(t_st) == adv_loop(deltas, decay_rate, t_st, float_zero, 0)
    IN IF \E t_st \in 1..T : adv(t_st).raised # ""
       THEN [raised |-> "RuntimeError", advs |-> <<>>]
       ELSE IF ~Stackable([t_st \in 1..T |-> adv(t_st).adv.tensor])
       THEN [raised |-> "RuntimeError", advs |-> <<>>]
       ELSE [raised |-> "", advs |-> [t_st \in 1..T |-> adv(t_st).adv.tensor]]

\* Seeded fault: the store is not reset
aggregate_experiences_no_reset(a) ==
    IF ~memory_full(a.memory) THEN Raise(a, "PreconditionError")
    ELSE IF td_deltas(a).raised # "" THEN Raise(a, td_deltas(a).raised)
    ELSE LET decay_rate == FMul(a.discount, a.gae_lambda)
             advs == gae_advs(td_deltas(a).deltas, decay_rate)
             out == [NoResult EXCEPT !.kind = "advantages",
                                     !.advs = advs.advs,
                                     !.log_probs = a.memory.log_probs,
                                     !.entropies = a.memory.entropies]
         IN IF advs.raised # "" THEN Raise(a, advs.raised)
            ELSE Return(a, out)

\* ACAgent.aggregate_experiences(): an exception leaves the store as it
\* is; the call that returns resets it (line 247)
aggregate_experiences(a) ==
    IF ~memory_full(a.memory) THEN Raise(a, "PreconditionError")
    ELSE IF td_deltas(a).raised # "" THEN Raise(a, td_deltas(a).raised)
    ELSE LET decay_rate == FMul(a.discount, a.gae_lambda)
             advs == gae_advs(td_deltas(a).deltas, decay_rate)
             out == [NoResult EXCEPT !.kind = "advantages",
                                     !.advs = advs.advs,
                                     !.log_probs = a.memory.log_probs,
                                     !.entropies = a.memory.entropies]
         IN IF advs.raised # "" THEN Raise(a, advs.raised)
            ELSE Return([a EXCEPT !.memory = memory_reset(@)], out)

----------------------------------------------------------------------------
(* The training loop that drives the agent *)

Is(a) ==
    /\ processor = a.processor
    /\ smooth_length = a.smooth_length
    /\ num_frames_per_proc = a.num_frames_per_proc
    /\ discount = a.discount
    /\ gae_lambda = a.gae_lambda
    /\ memory = a.memory
    /\ new_obs = a.new_obs
    /\ episode_steps = a.episode_steps
    /\ reward_record = a.reward_record
    /\ ep_rewards = a.ep_rewards
    /\ ep_actions = a.ep_actions
    /\ record_step = a.record_step
    /\ writer = a.writer
    /\ status = a.status
    /\ result = a.result

Becomes(a) ==
    /\ processor' = a.processor
    /\ smooth_length' = a.smooth_length
    /\ num_frames_per_proc' = a.num_frames_per_proc
    /\ discount' = a.discount
    /\ gae_lambda' = a.gae_lambda
    /\ memory' = a.memory
    /\ new_obs' = a.new_obs
    /\ episode_steps' = a.episode_steps
    /\ reward_record' = a.reward_record
    /\ ep_rewards' = a.ep_rewards
    /\ ep_actions' = a.ep_actions
    /\ record_step' = a.record_step
    /\ writer' = a.writer
    /\ status' = a.status
    /\ result' = a.result

NoCall ==
    [op |-> "__init__", obs |-> <<>>, action |-> <<>>, reward |-> <<>>,
     terminal |-> <<>>, fault |-> NoFault]

\* Configuration of the checked runs
SmoothLength == 2
WindowLength == 1
NumFrames == 2
RolloutFrames == 3
WorkerCount == 2

\* Bounds of the checked runs
MaxRecordStep == 3
MaxRolloutStep == 4
MaxFaultStep == 2

WorkerIds == 0..(WorkerCount - 1)

\* Per-worker input arrays: every worker sees both lo and lo + 1
AltVecs(lo) == {[i \in WorkerIds |-> lo + ((i + k) % 2)] : k \in 0..1}
ConstVec(c) == [i \in WorkerIds |-> c]
BoolVecs == [WorkerIds -> BOOLEAN]
Faults == {NoFault} \cup [worker : WorkerIds, write : 1..3]

\* One rollout step of the loop: predict, then observe with the sampled action
CallPredict(obs, sample) ==
    /\ status = "ok"
    /\ call.op # "predict"
    /\ Len(memory.values) < num_frames_per_proc
    /\ Becomes(predict(Agent, obs, TRUE, sample))
    /\ call' = [NoCall EXCEPT !.op = "predict", !.obs = obs]
    /\ UNCHANGED <<history, fresh, horizon>>

CallObserve(obs, reward, terminal, fault) ==
    /\ status = "ok"
    /\ call.op = "predict"
    /\ fault.worker \in DOMAIN terminal => terminal[fault.worker]
    /\ LET a == observe(Agent, obs, result.action, reward, terminal, TRUE, fault)
       IN /\ Becomes(a)
          /\ history' = IF a.status = "ok"
                        THEN Append(history, [reward |-> reward,
                                              terminal |-> terminal])
                        ELSE history
          /\ horizon' = IF a.status = "ok"
                        THEN Append(horizon, [pobs |-> call.obs, obs |-> obs,
                                              action |-> result.action,
                                              reward |-> reward,
                                              terminal |-> terminal])
                        ELSE horizon
    /\ call' = [op |-> "observe", obs |-> obs, action |-> result.action,
                reward |-> reward, terminal |-> terminal, fault |-> fault]
    /\ UNCHANGED fresh

CallSetNewObs(obs) ==
    /\ status = "ok"
    /\ call.op # "predict"
    /\ Becomes(set_new_obs(Agent, obs))
    /\ call' = [NoCall EXCEPT !.op = "set_new_obs", !.obs = obs]
    /\ fresh' = TRUE
    /\ UNCHANGED <<history, horizon>>

CallAggregate ==
    /\ status = "ok"
    /\ call.op # "predict"
    /\ LET a == aggregate_experiences(Agent)
       IN /\ Becomes(a)
          /\ horizon' = IF a.status = "ok" THEN <<>> ELSE horizon
    /\ call' = [NoCall EXCEPT !.op = "aggregate_experiences"]
    /\ fresh' = FALSE
    /\ UNCHANGED history

----------------------------------------------------------------------------
(* Spec: the episodic tracker under every reward / terminal pattern and     *)
(* every telemetry fault                                                    *)

Init ==
    /\ Is(ACAgent_init("processor", SmoothLength, WindowLength,
                       Frac(1, 2), FInt(1), NumFrames))
    /\ call = NoCall
    /\ history = <<>>
    /\ fresh = FALSE
    /\ horizon = <<>>

Predict ==
    /\ record_step < MaxRecordStep
    /\ \E sample \in AltVecs(0) : CallPredict(ConstVec(0), sample)

\* The sink may reject a write in any of the first MaxFaultStep record calls
Observe ==
    \E reward \in AltVecs(1), terminal \in BoolVecs,
       fault \in IF record_step < MaxFaultStep THEN Faults ELSE {NoFault} :
        CallObserve(ConstVec(1), reward, terminal, fault)

SetNewObs ==
    /\ memory_full(memory)
    /\ ~fresh
    /\ CallSetNewObs(ConstVec(1))

Aggregate ==
    /\ memory_full(memory)
    /\ CallAggregate

Next == Predict \/ Observe \/ SetNewObs \/ Aggregate

Spec == Init /\ [][Next]_vars

----------------------------------------------------------------------------
(* SpecRollout: two horizons of the store, with and without a feature      *)
(* processor, set_new_obs and aggregate_experiences called at any point     *)

InitRollout ==
    /\ \E proc \in {"None", "processor"} :
          Is(ACAgent_init(proc, SmoothLength, WindowLength,
                          Frac(1, 2), FInt(1), NumFrames))
    /\ call = NoCall
    /\ history = <<>>
    /\ fresh = FALSE
    /\ horizon = <<>>

RolloutPredict ==
    /\ record_step < MaxRolloutStep
    /\ \E obs \in AltVecs(0) : CallPredict(obs, ConstVec(0))

RolloutObserve ==
    \E obs \in AltVecs(0), reward \in AltVecs(1) :
        CallObserve(obs, reward, ConstVec(FALSE), NoFault)

RolloutSetNewObs ==
    /\ record_step < MaxRolloutStep
    /\ \E obs \in AltVecs(0) : CallSetNewObs(obs)

RolloutAggregate == CallAggregate

NextRollout ==
    RolloutPredict \/ RolloutObserve \/ RolloutSetNewObs \/ RolloutAggregate

SpecRollout == InitRollout /\ [][NextRollout]_vars

----------------------------------------------------------------------------
(* SpecGAE: aggregate_experiences on every full rollout of 1..RolloutFrames *)
(* timesteps over the input sets, for several decay rates                   *)

StepInputs ==
    [pobs : AltVecs(0), reward : AltVecs(1), terminal : BoolVecs]

\* The agent after the predict / observe pairs of the given timesteps
RECURSIVE run_steps(_, _)
run_steps(a, steps) ==
    IF steps = <<>> THEN a
    ELSE LET x == steps[1]
             a1 == predict(a, x.pobs, TRUE, ConstVec(0))
         IN run_steps(observe(a1, ConstVec(1), a1.result.action, x.reward,
                              x.terminal, TRUE, NoFault),
                      Tail(steps))

InitGAE ==
    \E T \in 1..RolloutFrames, disc \in {Frac(1, 2), FInt(1)},
       lam \in {FInt(0), FInt(1)} :
      \E steps \in [1..T -> StepInputs] :
        /\ Is(run_steps(ACAgent_init("processor", SmoothLength, WindowLength,
                                     disc, lam, T), steps))
        /\ call = [op |-> "observe", obs |-> ConstVec(1),
                   action |-> ConstVec(0), reward |-> steps[T].reward,
                   terminal |-> steps[T].terminal, fault |-> NoFault]
        /\ history = [t \in 1..T |-> [reward |-> steps[t].reward,
                                      terminal |-> steps[t].terminal]]
        /\ fresh = FALSE
        /\ horizon = [t \in 1..T |-> [pobs |-> steps[t].pobs,
                                      obs |-> ConstVec(1),
                                      action |-> ConstVec(0),
                                      reward |-> steps[t].reward,
                                      terminal |-> steps[t].terminal]]

GaeSetNewObs ==
    /\ memory_full(memory)
    /\ \E obs \in AltVecs(0) : CallSetNewObs(obs)

GaeAggregate ==
    /\ memory_full(memory)
    /\ CallAggregate

NextGAE == GaeSetNewObs \/ GaeAggregate

SpecGAE == InitGAE /\ [][NextGAE]_vars

----------------------------------------------------------------------------
(* What the training loop has fed to record so far *)

\* The rewards recorded for worker i, in recording order
RewardsOf(i) == [t \in 1..Len(history) |-> history[t].reward[i]]

\* The number of record calls so far whose terminal flag of worker i was set
TerminalsOf(i) == Cardinality({t \in 1..Len(history) : history[t].terminal[i]})

\* The last k entries of a sequence
LastK(s, k) == SubSeq(s, Len(s) - k + 1, Len(s))

Min(x, y) == IF x < y THEN x ELSE y

\* The totals of the completed episodes of worker i, in order: each sums the
\* rewards after the previous terminal up to and including its terminal step
RECURSIVE EpisodeTotals(_, _, _)
EpisodeTotals(i, t, running) ==
    IF t > Len(history) THEN <<>>
    ELSE IF history[t].terminal[i]
         THEN <<running + history[t].reward[i]>> \o EpisodeTotals(i, t + 1, 0)
         ELSE EpisodeTotals(i, t + 1, running + history[t].reward[i])

\* The episode summaries (reward-sum scalars) the sink holds for worker i
SummariesOf(i) ==
    SelectSeq(writer, LAMBDA w : w.kind = "scalar" /\ w.worker = i)

----------------------------------------------------------------------------
(* Claims about the episodic tracker, checked under Spec *)

\* C3: after every record call that returns, every worker whose terminal
\* flag was set has empty current-episode reward and action lists and an
\* episode index exactly one above its value before the call.
C3_TerminalClearsEpisode ==
    [][(call'.op = "observe" /\ status' = "ok") =>
         \A i \in DOMAIN call'.terminal :
            call'.terminal[i] =>
               /\ ep_rewards'[i] = <<>>
               /\ ep_actions'[i] = <<>>
               /\ episode_steps'[i] = Get(episode_steps, i, 0) + 1]_vars

\* Reached: a third record call ends the second episode of some worker.
C3_Witness ==
    /\ call.op = "observe" /\ status = "ok" /\ record_step = 3
    /\ \E i \in DOMAIN call.terminal :
          /\ call.terminal[i]
          /\ ep_rewards[i] = <<>> /\ ep_actions[i] = <<>>
          /\ episode_steps[i] = 2

\* C7: while the agent runs, every worker's smoothed reward window holds at
\* most smooth_length entries and equals the most recent
\* min(n, smooth_length) rewards recorded for the worker, oldest first,
\* n being the number of record calls; terminals do not clear it.
C7_SmoothedWindow ==
    status = "ok" =>
       /\ record_step = Len(history)
       /\ \A i \in WorkerIds :
             LET window == Get(reward_record, i, <<>>)
             IN /\ Len(window) <= smooth_length
                /\ window = LastK(RewardsOf(i),
                                  Min(Len(history), smooth_length))

\* Reached: more record calls than the window holds, the evicted reward
\* differing from the kept ones, with a terminal of that worker in between.
C7_Witness ==
    /\ status = "ok" /\ Len(history) = 3
    /\ \E i \in WorkerIds :
          /\ history[1].reward[i] = 2
          /\ history[2].terminal[i]
          /\ reward_record[i] = <<1, 2>>

\* C8: while the agent runs, every worker's episode index equals the number
\* of record calls so far that had the worker's terminal set (so it never
\* decreases, is never reset, and moves only on such a call), and the k-th
\* episode summary of the worker is tagged k - 1 and carries the sum of
\* the rewards recorded after the previous terminal up to and including
\* the terminal step.
C8_EpisodeIndexAndSummaries ==
    status = "ok" =>
       \A i \in WorkerIds :
          LET written == SummariesOf(i)
              totals == EpisodeTotals(i, 1, 0)
          IN /\ Get(episode_steps, i, 0) = TerminalsOf(i)
             /\ Len(written) = Len(totals)
             /\ \A k \in 1..Len(written) :
                   /\ written[k].step = k - 1
                   /\ written[k].value = <<totals[k]>>

\* Reached: a worker has completed two episodes, the second one of two
\* steps and spanning the reset of the store by aggregate_experiences.
C8_Witness ==
    /\ status = "ok" /\ Len(history) = 3 /\ Len(memory.rewards) = 1
    /\ \E i \in WorkerIds :
          /\ history[1].terminal[i] /\ ~history[2].terminal[i]
          /\ history[3].terminal[i]
          /\ episode_steps[i] = 2
          /\ Len(SummariesOf(i)) = 2
          /\ SummariesOf(i)[2].value = <<3>>

\* C6 as claimed: a record call during which the sink rejects a write
\* still returns normally and completes its bookkeeping - the episode of
\* the worker being written is closed, the later workers are processed and
\* record_step is incremented.
C6_SinkFailureSwallowed ==
    [][(call'.op = "observe" /\ call'.fault # NoFault) =>
         LET i == call'.fault.worker
         IN /\ status' = "ok"
            /\ record_step' = record_step + 1
            /\ episode_steps'[i] = Get(episode_steps, i, 0) + 1
            /\ ep_rewards'[i] = <<>> /\ ep_actions'[i] = <<>>
            /\ \A j \in DOMAIN call'.terminal :
                  j > i => Len(Get(reward_record', j, <<>>)) >= 1]_vars

----------------------------------------------------------------------------
(* Claims about the store round trip, the bootstrap observation and the    *)
(* feature processor, checked under SpecRollout                            *)

\* The processed form of a raw per-worker observation array
Processed(obs) == [i \in DOMAIN obs |-> process(obs[i])]

\* The content the store must have for the pairs of the current horizon
\* alone: the transitions observed and the statistics cached at predict.
HorizonStore ==
    LET n == Len(horizon)
        st(t) == get_recent_state(memory, Processed(horizon[t].pobs))
    IN [ACMemory(num_frames_per_proc, WindowLength) EXCEPT
          !.observations = [t \in 1..n |-> Processed(horizon[t].obs)],
          !.actions = [t \in 1..n |-> horizon[t].action],
          !.rewards = [t \in 1..n |-> horizon[t].reward],
          !.terminals = [t \in 1..n |-> horizon[t].terminal],
          !.values = [t \in 1..n |-> ac_model_value(st(t))],
          !.log_probs = [t \in 1..n |-> dist_log_prob(st(t), horizon[t].action)],
          !.entropies = [t \in 1..n |-> dist_entropy(st(t))]]

\* C4: after every aggregate_experiences call that returns the store holds
\* no transition and no cached statistic, and after every further pair
\* of predict / observe calls it holds exactly the timesteps of the new
\* horizon (T of them after T pairs), nothing of the prior horizon.
C4_StoreRoundTrip ==
    (status = "ok" /\ processor # "None") =>
       /\ (call.op = "aggregate_experiences" =>
              /\ horizon = <<>>
              /\ memory = ACMemory(num_frames_per_proc, WindowLength))
       /\ (call.op # "predict" => memory = HorizonStore)
       /\ Len(memory.rewards) = Len(horizon)

\* Reached: the second horizon is full, and its first transition differs
\* from the first transition of the first horizon.
C4_Witness ==
    /\ status = "ok" /\ call.op = "observe"
    /\ Len(history) = 2 * num_frames_per_proc
    /\ Len(horizon) = num_frames_per_proc
    /\ memory_full(memory)
    /\ memory.rewards[1] # history[1].reward
    /\ memory.rewards[1] = history[num_frames_per_proc + 1].reward

\* C5 as claimed: an aggregate_experiences call with no set_new_obs call
\* since construction or since the previous aggregate_experiences call
\* fails and returns no advantages.
C5_AggregateNeedsFreshObs ==
    [][(call'.op = "aggregate_experiences" /\ ~fresh) =>
          (status' # "ok" /\ result'.kind # "advantages")]_vars

\* C10 as claimed: predict, observe and set_new_obs all succeed whether or
\* not a feature processor is configured, and hand on process(obs_i) when
\* it is and the raw observation when it is not.
C10_SameFeatureProcessing ==
    LET seen == IF processor = "None" THEN call.obs ELSE Processed(call.obs)
    IN /\ call.op = "predict" =>
            /\ status = "ok"
            /\ memory.values[Len(memory.values)]
                  = ac_model_value(get_recent_state(memory, seen))
       /\ call.op = "observe" =>
            /\ status = "ok"
            /\ memory.observations[Len(memory.observations)] = seen
       /\ call.op = "set_new_obs" =>
            /\ status = "ok"
            /\ new_obs = [set |-> TRUE, obs |-> seen]

----------------------------------------------------------------------------
(* Claims about the advantage estimator, checked under SpecGAE *)

\* The value the agent reads for worker i: the sum of the value vector
ValueAt(t, i) == SeqSum(memory.values[t][i])

\* V_T for worker i: the model's value of the state built from the
\* observation the last set_new_obs call was given
BootstrapValue(i) ==
    SeqSum(ac_model_value(get_recent_state(memory, Processed(call.obs)))[i])

\* C1: on a full rollout of T >= 1 timesteps whose bootstrap observation
\* was just given to set_new_obs, the TD residuals aggregate_experiences
\* computes are, for every worker, delta[t] = reward[t] + value[t+1] *
\* (1 - terminal[t]) - value[t] with the cached value of the next stored
\* step for t < T-1 and with V_T for t = T-1; on a terminal step this is
\* reward[t] - value[t].
C1_TDResiduals ==
    (status = "ok" /\ call.op = "set_new_obs" /\ memory_full(memory)) =>
       LET T == Len(memory.rewards)
           deltas == td_deltas(Agent).deltas
       IN /\ T >= 1 /\ Len(deltas) = T
          /\ \A t \in 1..T : \A i \in WorkerIds :
                LET next == IF t < T THEN ValueAt(t + 1, i)
                            ELSE BootstrapValue(i)
                IN deltas[t][i] =
                      IF memory.terminals[t][i]
                      THEN memory.rewards[t][i] - ValueAt(t, i)
                      ELSE memory.rewards[t][i] + next - ValueAt(t, i)

\* Reached: a three-step rollout in which some worker has a terminal at an
\* inner step and none at the last, and a bootstrap value that is neither
\* zero nor the cached value of the last stored step.
C1_Witness ==
    /\ status = "ok" /\ call.op = "set_new_obs" /\ memory_full(memory)
    /\ Len(memory.rewards) = 3
    /\ \E i \in WorkerIds :
          /\ memory.terminals[1][i] /\ ~memory.terminals[3][i]
          /\ BootstrapValue(i) # 0
          /\ BootstrapValue(i) # ValueAt(3, i)
          /\ ValueAt(2, i) # 0

\* sum over t in from..T of deltas[t] * decay_rate^(t - t_st), for worker i
RECURSIVE DecayedSum(_, _, _, _, _)
DecayedSum(deltas, i, decay_rate, t_st, from) ==
    IF from > Len(deltas) THEN FInt(0)
    ELSE FAdd(FMul(FInt(deltas[from][i]), FPow(decay_rate, from - t_st)),
              DecayedSum(deltas, i, decay_rate, t_st, from + 1))

\* C2: the advantages aggregate_experiences returns are, for every worker
\* and every t_start, the full decayed sum of the residuals from t_start
\* to the end of the rollout, terminals in between notwithstanding; the
\* last advantage is the last residual.
C2_FullDecayedSum ==
    [][(call'.op = "aggregate_experiences" /\ status' = "ok") =>
         LET deltas == td_deltas(Agent).deltas
             T == Len(deltas)
             decay_rate == FMul(discount, gae_lambda)
         IN /\ Len(result'.advs) = T
            /\ \A t_st \in 1..T : \A i \in WorkerIds :
                  result'.advs[t_st][i]
                     = DecayedSum(deltas, i, decay_rate, t_st, t_st)
            /\ \A i \in WorkerIds :
                  result'.advs[T][i] = FInt(deltas[T][i])]_vars

\* Reached: advantages of a three-step rollout with a nonzero decay rate
\* in which a worker's first step is terminal and the decayed sum of its
\* later residuals is not zero.
C2_Witness ==
    /\ status = "ok" /\ call.op = "aggregate_experiences"
    /\ result.kind = "advantages" /\ Len(result.advs) = 3
    /\ FMul(discount, gae_lambda) # FInt(0)
    /\ \E i \in WorkerIds :
          /\ history[1].terminal[i]
          /\ result.advs[2][i] # FInt(0)
          /\ result.advs[3][i] # FInt(0)

\* adv[T] = delta[T], adv[t] = delta[t] + decay_rate * keep(t) * adv[t+1]
RECURSIVE Recurrence(_, _, _, _, _)
Recurrence(deltas, i, decay_rate, keep, t) ==
    IF t = Len(deltas) THEN FInt(deltas[t][i])
    ELSE FAdd(FInt(deltas[t][i]),
              FMul(FMul(decay_rate, FInt(keep[t][i])),
                   Recurrence(deltas, i, decay_rate, keep, t + 1)))

\* C9 as claimed: the advantages equal the backward recurrence masked by
\* (1 - terminal[t]).
C9_MaskedRecurrence ==
    [][(call'.op = "aggregate_experiences" /\ status' = "ok") =>
         LET deltas == td_deltas(Agent).deltas
             decay_rate == FMul(discount, gae_lambda)
             mask == [t \in 1..Len(deltas) |->
                        [i \in WorkerIds |->
                            IF memory.terminals[t][i] THEN 0 ELSE 1]]
         IN \A t \in 1..Len(deltas) : \A i \in WorkerIds :
               result'.advs[t][i]
                  = Recurrence(deltas, i, decay_rate, mask, t)]_vars

\* C9 as amended: the advantages equal the backward recurrence
\* adv[T-1] = delta[T-1], adv[t] = delta[t] + decay_rate * adv[t+1],
\* with no (1 - terminal[t]) factor.
C9_UnmaskedRecurrence ==
    [][(call'.op = "aggregate_experiences" /\ status' = "ok") =>
         LET deltas == td_deltas(Agent).deltas
             decay_rate == FMul(discount, gae_lambda)
             one == [t \in 1..Len(deltas) |-> [i \in WorkerIds |-> 1]]
         IN \A t \in 1..Len(deltas) : \A i \in WorkerIds :
               result'.advs[t][i]
                  = Recurrence(deltas, i, decay_rate, one, t)]_vars

\* Reached: advantages of a rollout whose second step is terminal for a
\* worker and whose last advantage for it is not zero, the decay rate
\* being 1/2.
C9_Witness ==
    /\ status = "ok" /\ call.op = "aggregate_experiences"
    /\ result.kind = "advantages" /\ Len(result.advs) = 3
    /\ FMul(discount, gae_lambda) = Frac(1, 2)
    /\ \E i \in WorkerIds :
          /\ history[2].terminal[i] /\ ~history[1].terminal[i]
          /\ result.advs[3][i] # FInt(0)
          /\ result.advs[2][i].d = 2

====
